---- MODULE Spec2Model ----
(***************************************************************************)
(* State-machine model of the AI-CoDirector front end:                     *)
(*   - the routed pages ScriptTransformer and VideoAnalyzer (App.js), and  *)
(*   - the tabbed components ScriptWriter and EmotionDetector              *)
(*     (AICoDirectorApp).                                                  *)
(* Each view owns its React state; a view that is not mounted holds its    *)
(* initial state (React discards state on unmount and re-creates it on     *)
(* mount).  Network calls are records in `requests` until their response   *)
(* (or failure) is processed.                                              *)
(***************************************************************************)
EXTENDS Integers, Sequences, FiniteSets, TLC

\* ------------------------------------------------------------------ bounds
MaxInFlight == 2   \* network calls in flight at one time, over all instances
MaxUrls == 2       \* object URLs created in one behaviour

\* ------------------------------------------------------- JavaScript values
\* null and undefined, for string- and file-valued slots.
null == "null"
undefined == "undefined"

\* A string typed by the user is a sequence of characters.
\* The texts typed in the model: empty, whitespace only, plain, padded.
Texts == {<<>>, <<" ">>, <<"a">>, <<" ", "a", " ">>}

IsSpace(c) == c \in {" ", "\t", "\n", "\r"}

RECURSIVE TrimStart(_)
TrimStart(s) == IF s # <<>> /\ IsSpace(Head(s)) THEN TrimStart(Tail(s)) ELSE s

RECURSIVE TrimEnd(_)
TrimEnd(s) ==
  IF s # <<>> /\ IsSpace(s[Len(s)]) THEN TrimEnd(SubSeq(s, 1, Len(s) - 1)) ELSE s

\* String.prototype.trim
Trim(s) == TrimEnd(TrimStart(s))

\* String.prototype.startsWith
StartsWith(s, p) == Len(s) >= Len(p) /\ SubSeq(s, 1, Len(p)) = p

\* Truthiness of an opaque payload string (server text, message, script).
Truthy(v) == v \notin {null, undefined, ""}

\* a || b
OrElse(a, b) == IF Truthy(a) THEN a ELSE b

\* An object-valued slot is <<>> when null and <<obj>> when set.
NullObj == <<>>
Obj(d) == <<d>>

\* ------------------------------------------------------------------- state
VARIABLES
  view,      \* the mounted view
  st,        \* ScriptTransformer state
  va,        \* VideoAnalyzer state
  sw,        \* ScriptWriter state
  ed,        \* EmotionDetector state
  requests,  \* network calls in flight, in the order they were issued
  urls,      \* number of object URLs created so far (URL n is the n-th)
  revoked,   \* revoked[n]: how many times URL n was passed to revokeObjectURL
  peak,      \* history: the most object URLs that were live at one time
  last,      \* history: the last user event or callback that ran, and its outcome
  theme,     \* AICoDirectorApp: the theme (null before the app is constructed)
  stored,    \* the localStorage item ai_codirector_theme (null when absent)
  env,       \* the browser: the item at startup, matchMedia, failing storage
  trail      \* history: <<theme, stored>> before each of the last two toggles

\* The state of the shell of AICoDirectorApp.
shellVars == <<theme, stored, env, trail>>

vars == <<view, st, va, sw, ed, requests, urls, revoked, peak, last, shellVars>>

\* A view holds a result when its result slot is truthy (the test its result
\* panel renders by).  A view that is not mounted holds none.
STHasResult == Truthy(st.result)
VAHasResult == va.result # NullObj
SWHasResult == sw.out # NullObj
EDHasResult == ed.result # NullObj
ResultPresent == STHasResult \/ VAHasResult \/ SWHasResult \/ EDHasResult

\* ---------------------------------------------------------------- messages
STConnectMsg == "Failed to connect to the backend. Please check if the API is active."
VASelectMsg == "Please select a file first."
VAFailMsg == "Failed to analyze video. Ensure the file isn't too large and the backend is active."
SWValidationMsg == "Please paste script text or upload a PDF."
EDValidationMsg == "Upload video and enter intended emotion"
EDNotVideoMsg == "Please upload a valid video file"
EDTooLargeMsg == "File too large (50MB max)"
ServerErrorMsg == "Server error"
\* message of the TypeError a rejected fetch() carries
FetchFailedMsg == "Failed to fetch"
\* message of the SyntaxError Response.json() throws on a body that is not JSON
JsonSyntaxMsg == "Unexpected token < in JSON at position 0"

\* e?.message || String(e), for an Error e with the given message
ErrorText(message) == OrElse(message, "Error")

\* -------------------------------------------------------------------- files
\* The File objects a user can pick, by name; each has a media type and a size.
Files == {"clip.mp4", "exact.mp4", "big.mp4", "draft.pdf"}
\* The documents picked in ScriptWriter, which looks at neither type nor size.
Documents == {"draft.pdf"}

VideoPrefix == <<"v", "i", "d", "e", "o", "/">>
VideoMp4 == VideoPrefix \o <<"m", "p", "4">>
ApplicationPdf == <<"a", "p", "p", "l", "i", "c", "a", "t", "i", "o", "n", "/", "p", "d", "f">>

\* 50*1024*1024
MaxVideoBytes == 50 * 1024 * 1024

FileType(f) == IF f = "draft.pdf" THEN ApplicationPdf ELSE VideoMp4

FileSize(f) ==
  CASE f = "clip.mp4" -> 1024
    [] f = "exact.mp4" -> MaxVideoBytes
    [] f = "big.mp4" -> MaxVideoBytes + 1
    [] OTHER -> 2048

\* -------------------------------------------------------------- object URLs
\* URL n is the n-th URL createObjectURL returned; NoUrl stands for null / ''.
NoUrl == 0

\* The number of URLs created (the first u) and not revoked.
Live(rv, u) == Cardinality({n \in 1..u : rv[n] = 0})

\* History: the peak after createObjectURL is called with `live` URLs live.
PeakAfterCreate(live) == IF live + 1 > peak THEN live + 1 ELSE peak

\* URL.revokeObjectURL(url), guarded by the truthiness of url where the code does
Revoke(rv, url) == IF url # NoUrl THEN [rv EXCEPT ![url] = @ + 1] ELSE rv

\* ------------------------------------------------------------ response data
ScriptData ==
  {[detail |-> d, structured_script |-> s, final_script |-> f] :
     <<d, s, f>> \in {<<undefined, undefined, undefined>>,
                      <<undefined, "INT. CAFE - DAY", undefined>>,
                      <<undefined, undefined, "FADE IN">>,
                      <<"Quota exceeded", undefined, undefined>>}}

NoScriptData == [detail |-> undefined, structured_script |-> undefined, final_script |-> undefined]

\* confidence is carried in ten-thousandths: 8700 is 0.87
EmotionData ==
  [detail : {undefined, "Model unavailable"}, predicted_emotion : {"Joy"},
   confidence : {8700}, match : BOOLEAN]

NoEmotionData ==
  [detail |-> undefined, predicted_emotion |-> undefined, confidence |-> 0, match |-> FALSE]

\* What a fetch can end in: a rejected promise, or a response with a status
\* (ok or not) whose body parses as JSON (data) or does not.
Responses(Data, none) ==
  {[kind |-> "reject", ok |-> FALSE, parses |-> FALSE, data |-> none]}
  \cup [kind : {"http"}, ok : BOOLEAN, parses : {TRUE}, data : Data]
  \cup [kind : {"http"}, ok : BOOLEAN, parses : {FALSE}, data : {none}]

ScriptResponses == Responses(ScriptData, NoScriptData)
EmotionResponses == Responses(EmotionData, NoEmotionData)

\* ----------------------------------------------------------------- requests
\* Request bodies: every field present in some body; undefined / empty where absent.
NoBody == [endpoint |-> "", original_script |-> <<>>, genre |-> <<>>,
           file |-> undefined, video |-> undefined, user_emotion |-> <<>>]

\* A call in flight: the view whose handler awaits it, and
\* alive: the component instance that issued the call is still mounted;
\* file (history): the file the call uploads, null when it uploads none;
\* stale (history): that instance was reset or cleared after it issued the call;
\* replaces (history): the submit that issued the call cleared a displayed result.
\* The history fields describe a call to its live owner and go with the owner.
NewRequest(v, body) ==
  [view |-> v, alive |-> TRUE, stale |-> FALSE, replaces |-> ResultPresent,
   file |-> IF body.video # undefined THEN body.video
            ELSE IF body.file # undefined THEN body.file ELSE null]

\* History records: what ran last, how it ended, the body it sent (if any),
\* and, for a processed response, the `replaces` of its call.
Event(op, outcome, body) ==
  [op |-> op, outcome |-> outcome, body |-> body, replaces |-> FALSE]
Did(op) == Event(op, "done", NoBody)

Alive(r) == r.alive

\* History: how the call r ended for its handler: its instance was unmounted
\* ("dropped"), fetch rejected ("network"), a non-success status with a JSON
\* body ("status") or another body ("status_unparsed"), a success status with
\* a body that is not JSON ("unparsed"), or a success status with JSON ("success").
Completion(r, resp) ==
  IF ~Alive(r) THEN "dropped"
  ELSE IF resp.kind = "reject" THEN "network"
  ELSE IF ~resp.ok THEN (IF resp.parses THEN "status" ELSE "status_unparsed")
  ELSE IF ~resp.parses THEN "unparsed"
  ELSE "success"

\* History: the response (or failure) of the call r has been processed.
Settled(op, r, resp) ==
  [Event(op, Completion(r, resp), NoBody) EXCEPT !.replaces = r.replaces]

\* Unmounting the mounted instance: its calls stay in flight, without an owner.
Orphan(rs) ==
  [i \in DOMAIN rs |->
     [rs[i] EXCEPT !.alive = FALSE, !.stale = FALSE, !.replaces = FALSE, !.file = null]]

\* History: the calls of the mounted instance become stale when it is reset.
MarkStale(rs) == [i \in DOMAIN rs |-> IF Alive(rs[i]) THEN [rs[i] EXCEPT !.stale = TRUE] ELSE rs[i]]

\* The calls in flight without the i-th.
RemoveAt(rs, i) == SubSeq(rs, 1, i - 1) \o SubSeq(rs, i + 1, Len(rs))

\* Fault variant of Fetch: the call is issued a second time.
FetchTwice(rs, v, body) == Append(Append(rs, NewRequest(v, body)), NewRequest(v, body))

\* fetch(): one more call in flight.
Fetch(rs, v, body) == Append(rs, NewRequest(v, body))

\* -------------------------------------------------------- ScriptTransformer
Screenplay == <<"S", "c", "r", "e", "e", "n", "p", "l", "a", "y">>

STInit == [loading |-> FALSE, result |-> null, genre |-> <<>>, text |-> <<>>, error |-> ""]

STBody(text, selectedGenre) ==
  [NoBody EXCEPT !.endpoint = "generate-script/",
                 !.original_script = text, !.genre = selectedGenre]

\* Fault variant of STSelectedGenre: the trimmed genre is sent without the fallback.
STSelectedGenreNoFallback(genre) == Trim(genre)

\* const selectedGenre = genre.trim() || "Screenplay"
STSelectedGenre(genre) == IF Trim(genre) # <<>> THEN Trim(genre) ELSE Screenplay

\* body: JSON.stringify({ original_script: text, genre: selectedGenre })
STRequestBody == STBody(st.text, STSelectedGenre(st.genre))

\* disabled={loading || !text}
STGenerateDisabled == st.loading \/ st.text = <<>>

\* if(!text.trim()) return;
STRejects == Trim(st.text) = <<>>

STSetGenre(g) ==
  /\ view = "ScriptTransformer"
  /\ st' = [st EXCEPT !.genre = g]
  /\ last' = Did("edit")
  /\ UNCHANGED <<shellVars, view, va, sw, ed, requests, urls, revoked, peak>>

STSetText(t) ==
  /\ view = "ScriptTransformer"
  /\ st' = [st EXCEPT !.text = t]
  /\ last' = Did("edit")
  /\ UNCHANGED <<shellVars, view, va, sw, ed, requests, urls, revoked, peak>>

\* Click on "Generate Script": handleGenerate up to its first await.
STGenerate ==
  /\ view = "ScriptTransformer"
  /\ IF STGenerateDisabled
       THEN /\ last' = Event("STGenerate", "disabled", NoBody)
            /\ UNCHANGED <<st, requests>>
       ELSE IF STRejects
         THEN /\ last' = Event("STGenerate", "rejected", NoBody)
              /\ UNCHANGED <<st, requests>>
         ELSE /\ Len(requests) < MaxInFlight
              /\ st' = [st EXCEPT !.loading = TRUE, !.error = "", !.result = null]
              /\ requests' = Fetch(requests, "ScriptTransformer", STRequestBody)
              /\ last' = Event("STGenerate", "sent", STRequestBody)
  /\ UNCHANGED <<shellVars, view, va, sw, ed, urls, revoked, peak>>

\* handleGenerate from the resolution of fetch to its end.
STSettle(s, resp) ==
  IF resp.kind = "http" /\ resp.ok /\ resp.parses
    THEN [s EXCEPT !.result = OrElse(resp.data.structured_script, resp.data.final_script),
                   !.loading = FALSE]
    ELSE [s EXCEPT !.error = STConnectMsg, !.loading = FALSE]

\* A state update of an unmounted component is dropped by React.
STRespond(i, resp) ==
  /\ i \in DOMAIN requests /\ requests[i].view = "ScriptTransformer"
  /\ requests' = RemoveAt(requests, i)
  /\ st' = IF Alive(requests[i]) THEN STSettle(st, resp) ELSE st
  /\ last' = Settled("STRespond", requests[i], resp)
  /\ UNCHANGED <<shellVars, view, va, sw, ed, urls, revoked, peak>>

\* ------------------------------------------------------------ VideoAnalyzer
VAInit == [file |-> null, preview |-> NoUrl, loading |-> FALSE, result |-> NullObj,
           intendedEmotion |-> <<>>, error |-> ""]

VABody(file, emotion) ==
  [NoBody EXCEPT !.endpoint = "predict", !.video = file, !.user_emotion = emotion]

\* formData: video = file, user_emotion = intendedEmotion
VARequestBody == VABody(va.file, va.intendedEmotion)

\* disabled={loading}
VAAnalyzeDisabled == va.loading

\* if (!file) { setError(...); return; }
VARejects == va.file = null

\* handleFileChange's test of the picked file: if (selected)
VAAccepts(f) == f # undefined

\* Fault variant of VAPreviewCleanup: the [preview] effect returns no cleanup.
VAPreviewNoCleanup(rv, preview) == rv

\* The cleanup of the [preview] effect: if (preview) URL.revokeObjectURL(preview)
VAPreviewCleanup(rv, preview) == Revoke(rv, preview)

\* The file input is rendered only while there is no preview.  handleFileChange
\* creates the URL; the cleanup of the previous [preview] effect runs after
\* the render that follows.
VAFileChange(f) ==
  /\ view = "VideoAnalyzer"
  /\ va.preview = NoUrl
  /\ last' = Event("VAFileChange", IF VAAccepts(f) THEN "accepted" ELSE "ignored", NoBody)
  /\ IF VAAccepts(f)
       THEN /\ urls < MaxUrls
            /\ urls' = urls + 1
            /\ va' = [va EXCEPT !.file = f, !.preview = urls + 1,
                                !.result = NullObj, !.error = ""]
            /\ peak' = PeakAfterCreate(Live(revoked, urls))
            /\ revoked' = VAPreviewCleanup(revoked, va.preview)
       ELSE UNCHANGED <<va, urls, revoked, peak>>
  /\ UNCHANGED <<shellVars, view, st, sw, ed, requests>>

\* The remove-video button, rendered over the preview.
VARemove ==
  /\ view = "VideoAnalyzer"
  /\ va.preview # NoUrl
  /\ va' = [va EXCEPT !.file = null, !.preview = NoUrl, !.result = NullObj]
  /\ revoked' = VAPreviewCleanup(revoked, va.preview)
  /\ requests' = MarkStale(requests)
  /\ last' = Did("VARemove")
  /\ UNCHANGED <<shellVars, view, st, sw, ed, urls, peak>>

\* The intended-emotion input, rendered beside the preview.
VASetEmotion(e) ==
  /\ view = "VideoAnalyzer"
  /\ va.preview # NoUrl
  /\ va' = [va EXCEPT !.intendedEmotion = e]
  /\ last' = Did("edit")
  /\ UNCHANGED <<shellVars, view, st, sw, ed, requests, urls, revoked, peak>>

\* Click on "Start Analysis" (rendered beside the preview): handleAnalyze up
\* to its first await.
VAAnalyze ==
  /\ view = "VideoAnalyzer"
  /\ va.preview # NoUrl
  /\ IF VAAnalyzeDisabled
       THEN /\ last' = Event("VAAnalyze", "disabled", NoBody)
            /\ UNCHANGED <<va, requests>>
       ELSE IF VARejects
         THEN /\ va' = [va EXCEPT !.error = VASelectMsg]
              /\ last' = Event("VAAnalyze", "rejected", NoBody)
              /\ UNCHANGED requests
         ELSE /\ Len(requests) < MaxInFlight
              /\ va' = [va EXCEPT !.loading = TRUE, !.error = "", !.result = NullObj]
              /\ requests' = Fetch(requests, "VideoAnalyzer", VARequestBody)
              /\ last' = Event("VAAnalyze", "sent", VARequestBody)
  /\ UNCHANGED <<shellVars, view, st, sw, ed, urls, revoked, peak>>

\* handleAnalyze from the resolution of fetch to its end.
VASettle(s, resp) ==
  IF resp.kind = "http" /\ resp.ok /\ resp.parses
    THEN [s EXCEPT !.result = Obj(resp.data), !.loading = FALSE]
    ELSE [s EXCEPT !.error = VAFailMsg, !.loading = FALSE]

VARespond(i, resp) ==
  /\ i \in DOMAIN requests /\ requests[i].view = "VideoAnalyzer"
  /\ requests' = RemoveAt(requests, i)
  /\ va' = IF Alive(requests[i]) THEN VASettle(va, resp) ELSE va
  /\ last' = Settled("VARespond", requests[i], resp)
  /\ UNCHANGED <<shellVars, view, st, sw, ed, urls, revoked, peak>>

\* ------------------------------------------------------------- ScriptWriter
Drama == <<"D", "r", "a", "m", "a">>
Thriller == <<"T", "h", "r", "i", "l", "l", "e", "r">>
Comedy == <<"C", "o", "m", "e", "d", "y">>
Action == <<"A", "c", "t", "i", "o", "n">>
Romance == <<"R", "o", "m", "a", "n", "c", "e">>

\* the <option>s of the genre <select>
SWGenres == {Drama, Thriller, Comedy, Action, Romance}

SWInit == [genre |-> Drama, text |-> <<>>, pdf |-> null, loading |-> FALSE,
           out |-> NullObj, err |-> ""]

SWBody(pdf, text, genre) ==
  IF pdf # null
    THEN [NoBody EXCEPT !.endpoint = "generate-script-from-pdf/", !.file = pdf, !.genre = genre]
    ELSE [NoBody EXCEPT !.endpoint = "generate-script/", !.original_script = text,
                        !.genre = genre]

SWRequestBody == SWBody(sw.pdf, sw.text, sw.genre)

\* Fault variant of SWSubmitDisabled: the Generate button is never disabled.
SWSubmitNeverDisabled == FALSE

\* disabled={loading}
SWSubmitDisabled == sw.loading

\* if (!pdf && !text.trim()) return setErr(...)
SWRejects == sw.pdf = null /\ Trim(sw.text) = <<>>

SWSetGenre(g) ==
  /\ view = "ScriptWriter"
  /\ sw' = [sw EXCEPT !.genre = g]
  /\ last' = Did("edit")
  /\ UNCHANGED <<shellVars, view, st, va, ed, requests, urls, revoked, peak>>

SWSetText(t) ==
  /\ view = "ScriptWriter"
  /\ sw' = [sw EXCEPT !.text = t]
  /\ last' = Did("edit")
  /\ UNCHANGED <<shellVars, view, st, va, ed, requests, urls, revoked, peak>>

\* FileDrop: onFileSelected={(f)=>setPdf(f)}; f is null when no file was picked.
SWFileSelected(f) ==
  /\ view = "ScriptWriter"
  /\ sw' = [sw EXCEPT !.pdf = f]
  /\ last' = Did("SWFileSelected")
  /\ UNCHANGED <<shellVars, view, st, va, ed, requests, urls, revoked, peak>>

\* Fault variant of SWSubmitPrologue: the previous output is kept.
SWSubmitPrologueKeepsOut(s) == [s EXCEPT !.err = ""]

\* What submit does before it validates: setErr(''); setOut(null)
SWSubmitPrologue(s) == [s EXCEPT !.err = "", !.out = NullObj]

\* Click on "Generate": submit up to its first await.
SWSubmit ==
  /\ view = "ScriptWriter"
  /\ IF SWSubmitDisabled
       THEN /\ last' = Event("SWSubmit", "disabled", NoBody)
            /\ UNCHANGED <<sw, requests>>
       ELSE IF SWRejects
         THEN /\ sw' = [SWSubmitPrologue(sw) EXCEPT !.err = SWValidationMsg]
              /\ last' = Event("SWSubmit", "rejected", NoBody)
              /\ UNCHANGED requests
         ELSE /\ Len(requests) < MaxInFlight
              /\ sw' = [SWSubmitPrologue(sw) EXCEPT !.loading = TRUE]
              /\ requests' = Fetch(requests, "ScriptWriter", SWRequestBody)
              /\ last' = Event("SWSubmit", "sent", SWRequestBody)
  /\ UNCHANGED <<shellVars, view, st, va, ed, urls, revoked, peak>>

\* The Reset button.
SWResetState(s) == [s EXCEPT !.text = <<>>, !.pdf = null, !.out = NullObj, !.err = ""]

SWReset ==
  /\ view = "ScriptWriter"
  /\ sw' = SWResetState(sw)
  /\ requests' = MarkStale(requests)
  /\ last' = Did("SWReset")
  /\ UNCHANGED <<shellVars, view, st, va, ed, urls, revoked, peak>>

\* const data = await resp.json(); if (!resp.ok) throw new Error(data?.detail
\* || 'Server error'); setOut(data);  catch: setErr(e?.message || String(e))
JsonSettleError(resp) ==
  CASE resp.kind = "reject" -> ErrorText(FetchFailedMsg)
    [] resp.kind = "http" /\ ~resp.parses -> ErrorText(JsonSyntaxMsg)
    [] OTHER -> ErrorText(OrElse(resp.data.detail, ServerErrorMsg))

\* Fault variant of SWSettle: setLoading(false) is skipped when the try throws.
SWSettleKeepsLoading(s, resp) ==
  IF resp.kind = "http" /\ resp.parses /\ resp.ok
    THEN [s EXCEPT !.out = Obj(resp.data), !.loading = FALSE]
    ELSE [s EXCEPT !.err = JsonSettleError(resp)]

SWSettle(s, resp) ==
  IF resp.kind = "http" /\ resp.parses /\ resp.ok
    THEN [s EXCEPT !.out = Obj(resp.data), !.loading = FALSE]
    ELSE [s EXCEPT !.err = JsonSettleError(resp), !.loading = FALSE]

SWRespond(i, resp) ==
  /\ i \in DOMAIN requests /\ requests[i].view = "ScriptWriter"
  /\ requests' = RemoveAt(requests, i)
  /\ sw' = IF Alive(requests[i]) THEN SWSettle(sw, resp) ELSE sw
  /\ last' = Settled("SWRespond", requests[i], resp)
  /\ UNCHANGED <<shellVars, view, st, va, ed, urls, revoked, peak>>

\* ---------------------------------------------------------- EmotionDetector
EDInit == [file |-> null, src |-> NoUrl, emotion |-> <<>>, result |-> NullObj,
           error |-> "", loading |-> FALSE]

EDBody(file, emotion) ==
  [NoBody EXCEPT !.endpoint = "predict", !.video = file, !.user_emotion = emotion]

\* fd: video = file, user_emotion = emotion
EDRequestBody == EDBody(ed.file, ed.emotion)

\* disabled={loading}
EDAnalyzeDisabled == ed.loading

\* if(!file || !emotion.trim()) return setError(...)
EDRejects == ed.file = null \/ Trim(ed.emotion) = <<>>

\* onFileSelected's checks of a picked file: "" when it is accepted, else the
\* validation message.
EDFileError(f) ==
  IF ~StartsWith(FileType(f), VideoPrefix) THEN EDNotVideoMsg
  ELSE IF FileSize(f) > MaxVideoBytes THEN EDTooLargeMsg
  ELSE ""

\* Fault variant of EDPreviewCleanup: the [file] effect returns no cleanup.
EDPreviewNoCleanup(rv, file, url) == rv

\* The cleanup of the [file] effect, which exists when the effect ran with a
\* file: URL.revokeObjectURL(url), url being the URL the effect put in src.
EDPreviewCleanup(rv, file, url) == IF file # null THEN Revoke(rv, url) ELSE rv

\* onFileSelected; then, when file changed, the [file] effect: first the
\* cleanup of the previous run, then a new URL for the new file.  Every pick is a new File
\* object, so a picked file always changes `file`.
EDFileSelected(f) ==
  /\ view = "EmotionDetector"
  /\ last' = Event("EDFileSelected",
                    IF f = null THEN "none" ELSE IF EDFileError(f) # "" THEN "rejected"
                    ELSE IF ed.file # null THEN "replaced" ELSE "accepted", NoBody)
  /\ IF f = null
       THEN /\ ed' = [ed EXCEPT !.error = "", !.result = NullObj, !.file = null, !.src = NoUrl]
            /\ revoked' = EDPreviewCleanup(revoked, ed.file, ed.src)
            /\ UNCHANGED <<urls, peak>>
       ELSE IF EDFileError(f) # ""
         THEN /\ ed' = [ed EXCEPT !.result = NullObj, !.error = EDFileError(f)]
              /\ UNCHANGED <<urls, revoked, peak>>
         ELSE /\ urls < MaxUrls
              /\ urls' = urls + 1
              /\ ed' = [ed EXCEPT !.error = "", !.result = NullObj, !.file = f,
                                  !.src = urls + 1]
              /\ revoked' = EDPreviewCleanup(revoked, ed.file, ed.src)
              /\ peak' = PeakAfterCreate(Live(revoked', urls))
  /\ UNCHANGED <<shellVars, view, st, va, sw, requests>>

EDSetEmotion(e) ==
  /\ view = "EmotionDetector"
  /\ ed' = [ed EXCEPT !.emotion = e]
  /\ last' = Did("edit")
  /\ UNCHANGED <<shellVars, view, st, va, sw, requests, urls, revoked, peak>>

\* Click on "Analyze": analyze up to its first await.
EDAnalyze ==
  /\ view = "EmotionDetector"
  /\ IF EDAnalyzeDisabled
       THEN /\ last' = Event("EDAnalyze", "disabled", NoBody)
            /\ UNCHANGED <<ed, requests>>
       ELSE IF EDRejects
         THEN /\ ed' = [ed EXCEPT !.error = EDValidationMsg]
              /\ last' = Event("EDAnalyze", "rejected", NoBody)
              /\ UNCHANGED requests
         ELSE /\ Len(requests) < MaxInFlight
              /\ ed' = [ed EXCEPT !.loading = TRUE, !.error = "", !.result = NullObj]
              /\ requests' = Fetch(requests, "EmotionDetector", EDRequestBody)
              /\ last' = Event("EDAnalyze", "sent", EDRequestBody)
  /\ UNCHANGED <<shellVars, view, st, va, sw, urls, revoked, peak>>

\* The Clear button; then the [file] effect when file changed.
EDClearState(s) ==
  [s EXCEPT !.file = null, !.src = NoUrl, !.emotion = <<>>, !.result = NullObj, !.error = ""]

EDClear ==
  /\ view = "EmotionDetector"
  /\ ed' = EDClearState(ed)
  /\ revoked' = EDPreviewCleanup(revoked, ed.file, ed.src)
  /\ requests' = MarkStale(requests)
  /\ last' = Did("EDClear")
  /\ UNCHANGED <<shellVars, view, st, va, sw, urls, peak>>

EDSettle(s, resp) ==
  IF resp.kind = "http" /\ resp.parses /\ resp.ok
    THEN [s EXCEPT !.result = Obj(resp.data), !.loading = FALSE]
    ELSE [s EXCEPT !.error = JsonSettleError(resp), !.loading = FALSE]

EDRespond(i, resp) ==
  /\ i \in DOMAIN requests /\ requests[i].view = "EmotionDetector"
  /\ requests' = RemoveAt(requests, i)
  /\ ed' = IF Alive(requests[i]) THEN EDSettle(ed, resp) ELSE ed
  /\ last' = Settled("EDRespond", requests[i], resp)
  /\ UNCHANGED <<shellVars, view, st, va, sw, urls, revoked, peak>>

\* ---------------------------------------------------- emotion result panels
\* Number.prototype.toString of a natural number, as a sequence of characters.
DigitChar(d) == <<"0", "1", "2", "3", "4", "5", "6", "7", "8", "9">>[d + 1]

RECURSIVE Digits(_)
Digits(n) == IF n < 10 THEN <<DigitChar(n)>> ELSE Digits(n \div 10) \o <<DigitChar(n % 10)>>

\* (confidence * 100).toFixed(0), confidence being c ten-thousandths: the
\* percentage c / 100 rounded to a whole number, half up.
ToFixed0(c) == Digits((c + 50) \div 100)

\* (confidence * 100).toFixed(2): the percentage with two decimals.
ToFixed2(c) == Digits(c \div 100) \o <<".">> \o <<DigitChar((c % 100) \div 10), DigitChar(c % 10)>>

\* VideoAnalyzer: {(result.confidence * 100).toFixed(0)}%
VAConfidenceText(result) == ToFixed0(result.confidence) \o <<"%">>

\* VideoAnalyzer: {result.match ? "Success" : "Mismatch"}
VAMatchText(result) == IF result.match THEN "Success" ELSE "Mismatch"

\* EmotionDetector: (result.confidence*100).toFixed(2) + '%', for a number
EDConfidenceText(result) == ToFixed2(result.confidence) \o <<"%">>

\* EmotionDetector: {result.match ? 'Yes' : 'No'}
EDMatchText(result) == IF result.match THEN "Yes" ELSE "No"

\* ------------------------------------------------------------------ routing
\* Home: navigate('/script-transformer')
HomeOpenScriptTransformer ==
  /\ view = "Home"
  /\ view' = "ScriptTransformer"
  /\ last' = Did("HomeOpenScriptTransformer")
  /\ UNCHANGED <<shellVars, st, va, sw, ed, requests, urls, revoked, peak>>

\* Home: navigate('/video-analyzer')
HomeOpenVideoAnalyzer ==
  /\ view = "Home"
  /\ view' = "VideoAnalyzer"
  /\ last' = Did("HomeOpenVideoAnalyzer")
  /\ UNCHANGED <<shellVars, st, va, sw, ed, requests, urls, revoked, peak>>

\* ScriptTransformer: "Back to Home" unmounts the page; its state is discarded.
STBack ==
  /\ view = "ScriptTransformer"
  /\ view' = "Home"
  /\ st' = STInit
  /\ requests' = Orphan(requests)
  /\ last' = Did("STBack")
  /\ UNCHANGED <<shellVars, va, sw, ed, urls, revoked, peak>>

\* VideoAnalyzer: "Back to Home" unmounts the page: the effect cleanup runs
\* and the state is discarded.
VABack ==
  /\ view = "VideoAnalyzer"
  /\ view' = "Home"
  /\ va' = VAInit
  /\ revoked' = VAPreviewCleanup(revoked, va.preview)
  /\ requests' = Orphan(requests)
  /\ last' = Event("VABack", IF va.preview # NoUrl THEN "revoked" ELSE "done", NoBody)
  /\ UNCHANGED <<shellVars, st, sw, ed, urls, peak>>

\* Header: setActive('emotion') replaces ScriptWriter by EmotionDetector.
TabEmotion ==
  /\ view = "ScriptWriter"
  /\ view' = "EmotionDetector"
  /\ sw' = SWInit
  /\ requests' = Orphan(requests)
  /\ last' = Did("TabEmotion")
  /\ UNCHANGED <<shellVars, st, va, ed, urls, revoked, peak>>

\* Header: setActive('script') replaces EmotionDetector by ScriptWriter; the
\* cleanup of the [file] effect runs.
TabScript ==
  /\ view = "EmotionDetector"
  /\ view' = "ScriptWriter"
  /\ ed' = EDInit
  /\ revoked' = EDPreviewCleanup(revoked, ed.file, ed.src)
  /\ requests' = Orphan(requests)
  /\ last' = Event("TabScript", IF ed.file # null THEN "revoked" ELSE "done", NoBody)
  /\ UNCHANGED <<shellVars, st, va, sw, urls, peak>>

\* -------------------------------------------------- AICoDirectorApp: theme
Dark == "dark"
Light == "light"

\* The browsers the app starts in.  stored: the item under the key, null when
\* absent, possibly a value the app never wrote; media: the color scheme
\* matchMedia reports, or "missing" when window.matchMedia is undefined;
\* throws: every access to localStorage throws.
Envs == [stored : {null, Dark, Light, "sepia"}, media : {Dark, Light, "missing"},
         throws : BOOLEAN]

\* window.matchMedia && window.matchMedia('(prefers-color-scheme: dark)').matches
PrefersDark(e) == e.media # "missing" /\ e.media = Dark

\* The initialiser of the theme state.
InitialTheme(e) ==
  IF e.throws THEN Dark
  ELSE IF e.stored = Dark \/ e.stored = Light THEN e.stored
  ELSE IF PrefersDark(e) THEN Dark ELSE Light

\* Fault variant of Persist: the effect writes nothing.
PersistNothing(item, t, e) == item

\* The [theme] effect: try { localStorage.setItem(key, theme) } catch {}
Persist(item, t, e) == IF e.throws THEN item ELSE t

\* s === 'dark' ? 'light' : 'dark'
Flip(t) == IF t = Dark THEN Light ELSE Dark

\* History: the trail after a toggle from <<theme, stored>>.
Trail == IF trail = <<>> THEN << <<theme, stored>> >> ELSE <<trail[Len(trail)], <<theme, stored>> >>

\* The app is constructed: the initialisers run, the first render shows the
\* script tab, and the [theme] effect persists the theme.
Startup ==
  /\ view = "Boot"
  /\ view' = "ScriptWriter"
  /\ theme' = InitialTheme(env)
  /\ stored' = Persist(stored, theme', env)
  /\ last' = Did("Startup")
  /\ UNCHANGED <<env, trail, st, va, sw, ed, requests, urls, revoked, peak>>

AppMounted == view \in {"ScriptWriter", "EmotionDetector"}

\* Header button: setTheme(isDark ? 'light' : 'dark'); then the [theme] effect.
ToggleButton ==
  /\ AppMounted
  /\ theme' = (IF theme = Dark THEN Light ELSE Dark)
  /\ stored' = Persist(stored, theme', env)
  /\ trail' = Trail
  /\ last' = Did("ToggleButton")
  /\ UNCHANGED <<env, view, st, va, sw, ed, requests, urls, revoked, peak>>

\* String.prototype.toLowerCase, on the keys typed in the model
ToLowerCase(key) == IF key = "T" THEN "t" ELSE key

\* The keydown handler: Ctrl/Cmd+T toggles; then the [theme] effect.  Any
\* other key leaves the theme alone.
KeyDown(ctrl, meta, key) ==
  /\ AppMounted
  /\ IF (ctrl \/ meta) /\ ToLowerCase(key) = "t"
       THEN /\ theme' = Flip(theme)
            /\ stored' = Persist(stored, theme', env)
            /\ trail' = Trail
            /\ last' = Did("ToggleShortcut")
       ELSE /\ last' = Did("KeyDown")
            /\ UNCHANGED <<theme, stored, trail>>
  /\ UNCHANGED <<env, view, st, va, sw, ed, requests, urls, revoked, peak>>

\* ------------------------------------------------------------ specification
\* App renders Home at "/"; AICoDirectorApp renders the script tab first.
Init ==
  /\ view \in {"Home", "ScriptWriter"}
  /\ st = STInit
  /\ va = VAInit
  /\ sw = SWInit
  /\ ed = EDInit
  /\ requests = <<>>
  /\ urls = 0
  /\ revoked = [n \in 1..MaxUrls |-> 0]
  /\ peak = 0
  /\ last = Did("init")
  /\ env = [stored |-> null, media |-> Dark, throws |-> FALSE]
  /\ theme = InitialTheme(env)
  /\ stored = Persist(env.stored, theme, env)
  /\ trail = <<>>

Next ==
  \/ \E g \in Texts : STSetGenre(g)
  \/ \E t \in Texts : STSetText(t)
  \/ STGenerate
  \/ \E i \in DOMAIN requests, resp \in ScriptResponses : STRespond(i, resp)
  \/ \E f \in Files \cup {undefined} : VAFileChange(f)
  \/ VARemove
  \/ \E e \in Texts : VASetEmotion(e)
  \/ VAAnalyze
  \/ \E i \in DOMAIN requests, resp \in EmotionResponses : VARespond(i, resp)
  \/ \E g \in SWGenres : SWSetGenre(g)
  \/ \E t \in Texts : SWSetText(t)
  \/ \E f \in Documents \cup {null} : SWFileSelected(f)
  \/ SWSubmit
  \/ SWReset
  \/ \E i \in DOMAIN requests, resp \in ScriptResponses : SWRespond(i, resp)
  \/ \E f \in Files \cup {null} : EDFileSelected(f)
  \/ \E e \in Texts : EDSetEmotion(e)
  \/ EDAnalyze
  \/ EDClear
  \/ \E i \in DOMAIN requests, resp \in EmotionResponses : EDRespond(i, resp)
  \/ HomeOpenScriptTransformer
  \/ HomeOpenVideoAnalyzer
  \/ STBack
  \/ VABack
  \/ TabEmotion
  \/ TabScript

Spec == Init /\ [][Next]_vars

\* The shell of AICoDirectorApp from a browser of any kind: startup, theme
\* toggles and tab switches.
ThemeInit ==
  /\ view = "Boot"
  /\ st = STInit
  /\ va = VAInit
  /\ sw = SWInit
  /\ ed = EDInit
  /\ requests = <<>>
  /\ urls = 0
  /\ revoked = [n \in 1..MaxUrls |-> 0]
  /\ peak = 0
  /\ last = Did("boot")
  /\ env \in Envs
  /\ theme = null
  /\ stored = env.stored
  /\ trail = <<>>

ThemeNext ==
  \/ Startup
  \/ ToggleButton
  \/ \E ctrl \in BOOLEAN, meta \in BOOLEAN, key \in {"t", "T", "x"} : KeyDown(ctrl, meta, key)
  \/ TabEmotion
  \/ TabScript

ThemeSpec == ThemeInit /\ [][ThemeNext]_vars

\* ==================================================================== claims
SubmitOps == {"STGenerate", "VAAnalyze", "SWSubmit", "EDAnalyze"}
RespondOps == {"STRespond", "VARespond", "SWRespond", "EDRespond"}

\* The calls in flight that the mounted instance issued.
AliveCalls == {i \in DOMAIN requests : requests[i].alive}

\* C1: at most one request is in flight per flow instance.  A call is alive
\* from the fetch that issues it until its response is processed or its
\* instance unmounts, so two calls of one instance in flight at once are two
\* alive calls.
C1_AtMostOneInFlight == Cardinality(AliveCalls) <= 1

\* C1 witness: a submit was clicked while a call of the instance was pending,
\* and was suppressed.
C1_Witness ==
  /\ last.op \in SubmitOps /\ last.outcome = "disabled"
  /\ Cardinality(AliveCalls) = 1

\* C2 (as claimed): after the reset/clear action the draft input and the
\* submission state equal their initial values and no created URL is live.
C2_ResetIsComplete ==
  /\ last.op = "SWReset" => sw = SWInit
  /\ last.op = "EDClear" => ed = EDInit /\ \A n \in 1..urls : revoked[n] = 1
  /\ last.op = "VARemove" => va = VAInit /\ \A n \in 1..urls : revoked[n] = 1

\* The step that processes the response of the i-th call in flight.
IsRespond(i) == last'.op \in RespondOps /\ requests' = RemoveAt(requests, i)

\* C3 (as claimed): a response to a call whose instance was reset/cleared
\* after issuing it, or was unmounted, changes no state of any flow.
C3_LateResponseIgnored ==
  [][\A i \in DOMAIN requests :
       (IsRespond(i) /\ (requests[i].stale \/ ~requests[i].alive))
         => UNCHANGED <<st, va, sw, ed>>]_vars

\* URL n is held by a preview slot of the mounted view.
Held(n) == va.preview = n \/ ed.src = n

\* C4: every created URL is revoked exactly once as soon as no preview slot
\* holds it (its file replaced or cleared, or the view unmounted), and is not
\* revoked while it is held; no URL is revoked twice or before it is created.
C4_PreviewPaired ==
  \A n \in 1..MaxUrls :
    revoked[n] = IF n <= urls /\ ~Held(n) THEN 1 ELSE 0

\* C4 witness: a video view was unmounted with a live preview, which is now
\* revoked once.
C4_Witness ==
  /\ last.op \in {"VABack", "TabScript"} /\ last.outcome = "revoked"
  /\ urls >= 1 /\ revoked[urls] = 1

\* C5: at most one created URL is live (not yet revoked) at any time, also
\* inside a file selection: the previous URL is revoked before the new one is
\* created, so no two were ever live at once.
C5_AtMostOneLiveUrl == Live(revoked, urls) <= 1 /\ peak <= 1

\* C5 witness: a file was selected while a previous preview existed; the
\* previous URL is revoked and the new one is the only live URL.
C5_Witness ==
  /\ last.op = "EDFileSelected" /\ last.outcome = "replaced"
  /\ urls >= 2 /\ ed.src = urls /\ revoked[urls] = 0 /\ revoked[urls - 1] = 1
  /\ peak = 1

\* A file the emotion flow must refuse: not a video type, or over 50 MiB.
NotAllowedVideo(f) ==
  ~StartsWith(FileType(f), VideoPrefix) \/ FileSize(f) > 50 * 1024 * 1024

\* C6 (as claimed): selecting a refused file in either emotion flow leaves
\* the selected file unchanged, sets a validation error and issues no call.
C6_SizeTypeGating ==
  [][\A f \in Files :
       NotAllowedVideo(f) =>
         /\ EDFileSelected(f) =>
              ed'.file = ed.file /\ ed'.error # "" /\ requests' = requests
         /\ VAFileChange(f) =>
              va'.file = va.file /\ va'.error # "" /\ requests' = requests]_vars

\* C7 (as claimed): an emotion-flow submit issues a call only with a file
\* selected and a non-blank intended emotion; otherwise it sets a validation
\* error and issues no call.
C7_EmotionSubmitPrecondition ==
  [][/\ (EDAnalyze /\ ~EDAnalyzeDisabled) =>
          IF ed.file # null /\ Trim(ed.emotion) # <<>>
            THEN TRUE
            ELSE requests' = requests /\ ed'.error # ""
     /\ (VAAnalyze /\ ~VAAnalyzeDisabled) =>
          IF va.file # null /\ Trim(va.intendedEmotion) # <<>>
            THEN TRUE
            ELSE requests' = requests /\ va'.error # ""]_vars

\* C8 (as claimed): a script-flow submit with blank text (and, in
\* ScriptWriter, no document) issues no call and sets a validation error.
C8_ScriptSubmitPrecondition ==
  [][/\ (STGenerate /\ ~STGenerateDisabled /\ Trim(st.text) = <<>>) =>
          requests' = requests /\ st'.error # ""
     /\ (SWSubmit /\ ~SWSubmitDisabled /\ sw.pdf = null /\ Trim(sw.text) = <<>>) =>
          requests' = requests /\ sw'.err # ""]_vars

\* C9 (as claimed): a submit rejected by local validation changes nothing of
\* its flow but the error message.
C9_RejectedSubmitKeepsState ==
  [][(last'.op \in SubmitOps /\ last'.outcome = "rejected") =>
       /\ st' = [st EXCEPT !.error = st'.error]
       /\ va' = [va EXCEPT !.error = va'.error]
       /\ sw' = [sw EXCEPT !.err = sw'.err]
       /\ ed' = [ed EXCEPT !.error = ed'.error]
       /\ requests' = requests]_vars

\* C10: the genre sent by an accepted script-generation submit is never
\* blank: it is "Screenplay" when the entered genre is blank, else the entered
\* genre (trimmed in ScriptTransformer).  The click leaves the entered genre
\* in place, so the state after it still shows what was entered.
C10_FallbackGenre ==
  /\ (last.op = "STGenerate" /\ last.outcome = "sent") =>
       /\ Trim(last.body.genre) # <<>>
       /\ last.body.genre = IF Trim(st.genre) = <<>> THEN Screenplay ELSE Trim(st.genre)
  /\ (last.op = "SWSubmit" /\ last.outcome = "sent") =>
       /\ Trim(last.body.genre) # <<>>
       /\ last.body.genre = IF Trim(sw.genre) = <<>> THEN Screenplay ELSE sw.genre

\* C10 witness: ScriptTransformer sent a request while the entered genre was
\* whitespace only, and the body carries the fallback label.
C10_Witness ==
  /\ last.op = "STGenerate" /\ last.outcome = "sent"
  /\ st.genre # <<>> /\ Trim(st.genre) = <<>>
  /\ last.body.genre = Screenplay

\* The completions that end a submission in failure.
FailureKinds == {"network", "status", "status_unparsed", "unparsed"}

\* The error shown by the mounted view ("" when it shows none).
ErrorShown ==
  CASE view = "ScriptTransformer" -> st.error
    [] view = "VideoAnalyzer" -> va.error
    [] view = "ScriptWriter" -> sw.err
    [] view = "EmotionDetector" -> ed.error
    [] OTHER -> ""

\* The messages a failed submission can put in the error slot.
FailureTexts ==
  {STConnectMsg, VAFailMsg, ServerErrorMsg, ErrorText(FetchFailedMsg),
   ErrorText(JsonSyntaxMsg)}
  \cup {d.detail : d \in {x \in ScriptData \cup EmotionData : Truthy(x.detail)}}

\* C11: error clears stale result.  While a submission of the mounted
\* instance is pending no result is present; a result becomes present only
\* when a success response is processed; and a failure message is never
\* displayed together with a result.  So from the start of a submission that
\* fails until the next success the earlier result is absent.
C11_ErrorClearsStaleResult ==
  /\ [](AliveCalls # {} => ~ResultPresent)
  /\ [](ErrorShown \in FailureTexts => ~ResultPresent)
  /\ [][(ResultPresent' /\ <<st.result, va.result, sw.out, ed.result>>'
                          # <<st.result, va.result, sw.out, ed.result>>)
          => (last'.op \in RespondOps /\ last'.outcome = "success")]_vars

\* C11 witness: a submission that replaced a displayed result has failed; its
\* error is displayed and no result is.
C11_Witness ==
  /\ last.op \in RespondOps /\ last.outcome \in FailureKinds /\ last.replaces
  /\ ErrorShown \in FailureTexts /\ ~ResultPresent

\* The fixed messages the flows have for a failed submission.
GenericTexts == {STConnectMsg, VAFailMsg, ServerErrorMsg}

\* The failed phase of a flow state with error slot e: not pending, no
\* result, and e displayed.
FailedWith(loading, hasResult, e, text) == ~loading /\ ~hasResult /\ e = text
FailedGeneric(loading, hasResult, e) == ~loading /\ ~hasResult /\ e \in GenericTexts

\* What C12 expects after an error status: the server's message when the body
\* carries one, else a generic message.
StatusOutcome(loading, hasResult, e, resp) ==
  IF resp.parses /\ Truthy(resp.data.detail)
    THEN FailedWith(loading, hasResult, e, resp.data.detail)
    ELSE FailedGeneric(loading, hasResult, e)

IsStatus(i, resp) == Alive(requests[i]) /\ resp.kind = "http" /\ ~resp.ok

\* C12 (as claimed): a response with a non-success status ends the flow in
\* the failed phase, with the server-supplied message when the body carries
\* one and with a fixed generic message when it carries none or does not
\* parse; never with the text of a parser exception.
C12_StatusErrorMessage ==
  [][\A i \in DOMAIN requests :
       /\ \A resp \in ScriptResponses :
            IsStatus(i, resp) =>
              /\ STRespond(i, resp) =>
                   StatusOutcome(st'.loading, STHasResult', st'.error, resp)
              /\ SWRespond(i, resp) =>
                   StatusOutcome(sw'.loading, SWHasResult', sw'.err, resp)
       /\ \A resp \in EmotionResponses :
            IsStatus(i, resp) =>
              /\ VARespond(i, resp) =>
                   StatusOutcome(va'.loading, VAHasResult', va'.error, resp)
              /\ EDRespond(i, resp) =>
                   StatusOutcome(ed'.loading, EDHasResult', ed'.error, resp)]_vars

IsUnparsed(i, resp) == Alive(requests[i]) /\ resp.kind = "http" /\ resp.ok /\ ~resp.parses

\* C13 (as claimed): a response with a success status whose body does not
\* parse ends the flow in the failed phase with a fixed generic message and no
\* result, in every flow.
C13_ParseErrorGeneric ==
  [][\A i \in DOMAIN requests :
       /\ \A resp \in ScriptResponses :
            IsUnparsed(i, resp) =>
              /\ STRespond(i, resp) => FailedGeneric(st'.loading, STHasResult', st'.error)
              /\ SWRespond(i, resp) => FailedGeneric(sw'.loading, SWHasResult', sw'.err)
       /\ \A resp \in EmotionResponses :
            IsUnparsed(i, resp) =>
              /\ VARespond(i, resp) => FailedGeneric(va'.loading, VAHasResult', va'.error)
              /\ EDRespond(i, resp) => FailedGeneric(ed'.loading, EDHasResult', ed'.error)]_vars

\* The pending flag of the mounted view.
Pending ==
  CASE view = "ScriptTransformer" -> st.loading
    [] view = "VideoAnalyzer" -> va.loading
    [] view = "ScriptWriter" -> sw.loading
    [] view = "EmotionDetector" -> ed.loading
    [] OTHER -> FALSE

Succeeded == ~Pending /\ ResultPresent /\ ErrorShown = ""
Failed == ~Pending /\ ~ResultPresent /\ ErrorShown # ""

\* C14 (as claimed): when the response (or failure) of an accepted submission
\* has been processed by its instance, the flow is in exactly one of the
\* terminal phases succeeded and failed, and after a success response it
\* holds a result.
C14_OneTerminalPhase ==
  (last.op \in RespondOps /\ last.outcome # "dropped") =>
    /\ Succeeded \/ Failed
    /\ ~(Succeeded /\ Failed)
    /\ last.outcome = "success" => ResultPresent

\* The last call in flight was issued by this step, for view v.
OneCallIssued(v) ==
  /\ Len(requests') = Len(requests) + 1
  /\ SubSeq(requests', 1, Len(requests)) = requests
  /\ requests'[Len(requests')].view = v

\* C15: a submit that passes validation issues exactly one call, a submit
\* that is suppressed or rejected issues none, and no other step issues a
\* call: processing a response or a failure only takes its call away (no
\* retry).  A ScriptWriter submit with a document and text issues its one call
\* to the document endpoint.
C15_OneCallPerSubmit ==
  [][/\ STGenerate =>
          IF STGenerateDisabled \/ STRejects THEN requests' = requests
          ELSE OneCallIssued("ScriptTransformer")
     /\ VAAnalyze =>
          IF VAAnalyzeDisabled \/ VARejects THEN requests' = requests
          ELSE OneCallIssued("VideoAnalyzer")
     /\ SWSubmit =>
          IF SWSubmitDisabled \/ SWRejects THEN requests' = requests
          ELSE /\ OneCallIssued("ScriptWriter")
               /\ sw.pdf # null => last'.body.endpoint = "generate-script-from-pdf/"
     /\ EDAnalyze =>
          IF EDAnalyzeDisabled \/ EDRejects THEN requests' = requests
          ELSE OneCallIssued("EmotionDetector")
     /\ last'.op \notin SubmitOps => Len(requests') <= Len(requests)
     /\ last'.op \in RespondOps => Len(requests') = Len(requests) - 1]_vars

\* C15 witness: ScriptWriter accepted a submit with both a document and text,
\* and one call, to the document endpoint, is in flight.
C15_Witness ==
  /\ last.op = "SWSubmit" /\ last.outcome = "sent"
  /\ sw.pdf # null /\ Trim(sw.text) # <<>>
  /\ last.body.endpoint = "generate-script-from-pdf/"
  /\ Cardinality(AliveCalls) = 1

Themes == {Dark, Light}

\* Each toggle flipped the theme, and two toggles restored theme and item.
TogglesFlip ==
  /\ trail # <<>> => trail[Len(trail)][1] # theme /\ trail[Len(trail)][1] \in Themes
  /\ Len(trail) = 2 => trail[1] = <<theme, stored>>

\* C16 (as claimed): once the app is running the theme is dark or light, the
\* stored item equals the theme after startup and after every toggle, each
\* toggle flips the theme and two toggles restore theme and stored item.
C16_ThemePersisted ==
  AppMounted => theme \in Themes /\ stored = theme /\ TogglesFlip

\* C16 (amended): as claimed where writing to storage does not throw; where
\* it throws the theme still toggles and the stored item stays as it was.
C16_ThemePersistedWhenWritable ==
  AppMounted =>
    /\ theme \in Themes
    /\ stored = IF env.throws THEN env.stored ELSE theme
    /\ TogglesFlip

\* C16 witness: with working storage and an item the app never wrote, the
\* theme was toggled twice, last by the shortcut; the item equals the theme,
\* which is the theme before the two toggles.
C16_Witness ==
  /\ ~env.throws /\ env.stored = "sepia"
  /\ last.op = "ToggleShortcut" /\ Len(trail) = 2
  /\ trail[1] = <<theme, stored>> /\ trail[2][1] # theme
  /\ stored = theme

\* The theme C17 expects at startup.  Where storage access throws it is taken
\* to expect dark whatever the system preference is.
ExpectedInitialTheme ==
  IF env.throws THEN Dark
  ELSE IF env.stored \in Themes THEN env.stored
  ELSE IF env.media \in Themes THEN env.media
  ELSE Dark

\* C17 (as claimed): at startup the theme is the stored preference when that
\* is exactly dark or light, else the system preference when one is
\* available, else dark.
C17_ThemeInitOrder == last.op = "Startup" => theme = ExpectedInitialTheme

\* A confidence of c ten-thousandths as a whole-number percentage.
WholePercent(c) == Digits((c + 50) \div 100) \o <<"%">>

\* The texts that display a match as a success.
SuccessTexts == {"Success", "Yes"}

\* C18 (as claimed): an accepted emotion submit sends the selected file as
\* video and the intended emotion as user_emotion; and a result with match =
\* true is rendered with its confidence as a whole-number percentage (0.87 as
\* "87%") and its match as a success, in VideoAnalyzer and EmotionDetector.
C18_EmotionEndToEnd ==
  /\ (last.op = "VAAnalyze" /\ last.outcome = "sent") =>
       last.body.video = va.file /\ last.body.user_emotion = va.intendedEmotion
  /\ (last.op = "EDAnalyze" /\ last.outcome = "sent") =>
       last.body.video = ed.file /\ last.body.user_emotion = ed.emotion
  /\ (VAHasResult /\ va.result[1].match) =>
       /\ VAConfidenceText(va.result[1]) = WholePercent(va.result[1].confidence)
       /\ va.result[1].confidence = 8700 => VAConfidenceText(va.result[1]) = <<"8", "7", "%">>
       /\ VAMatchText(va.result[1]) \in SuccessTexts
  /\ (EDHasResult /\ ed.result[1].match) =>
       /\ EDConfidenceText(ed.result[1]) = WholePercent(ed.result[1].confidence)
       /\ ed.result[1].confidence = 8700 => EDConfidenceText(ed.result[1]) = <<"8", "7", "%">>
       /\ EDMatchText(ed.result[1]) \in SuccessTexts

\* C19: pending always ends.  When the response or failure of a submission
\* has been processed by its instance, whatever the completion, the pending
\* flag is false; and the flag is true only while a call of the instance is
\* in flight, so no completion leaves the flow pending.
C19_PendingEnds ==
  /\ (last.op \in RespondOps /\ last.outcome # "dropped") => ~Pending
  /\ Pending => AliveCalls # {}

\* C19 witness: a request ended with an error status and a body that is not
\* JSON, and the flow is no longer pending.
C19_Witness ==
  /\ last.op \in RespondOps /\ last.outcome = "status_unparsed"
  /\ ~Pending /\ AliveCalls = {} /\ ErrorShown # ""

\* The response resp, a success, is processed for the i-th call by its instance.
IsSuccess(i, resp) ==
  Alive(requests[i]) /\ resp.kind = "http" /\ resp.ok /\ resp.parses

\* C20 (as claimed): in the video flows a result is stored only from the
\* response to a call that carried the file selected when it arrives, and a
\* step that changes the selected file leaves no result; so a result present
\* in state always belongs to the selected file.
C20_ResultOfCurrentFile ==
  [][/\ \A i \in DOMAIN requests, resp \in EmotionResponses :
          IsSuccess(i, resp) =>
            /\ VARespond(i, resp) => (VAHasResult' => requests[i].file = va'.file)
            /\ EDRespond(i, resp) => (EDHasResult' => requests[i].file = ed'.file)
     /\ va'.file # va.file => ~VAHasResult'
     /\ ed'.file # ed.file => ~EDHasResult']_vars

\* C21 (as claimed): in every state of every flow a non-empty error message
\* and a result are never both present.
C21_ResultErrorExclusive ==
  /\ ~(st.error # "" /\ STHasResult)
  /\ ~(va.error # "" /\ VAHasResult)
  /\ ~(sw.err # "" /\ SWHasResult)
  /\ ~(ed.error # "" /\ EDHasResult)

====
